---- MODULE Spec2Model ----
(***************************************************************************)
(* Dutch Dictation: the segment player (components/AudioSlicerPlayer.tsx)  *)
(* and the answer grading of the main view (normalizeText, cleanWord,      *)
(* generateDiff, handleSubmit).                                            *)
(*                                                                         *)
(* Time is counted in ticks.  A string is a sequence of one-character      *)
(* strings over Alphabet.                                                  *)
(***************************************************************************)
EXTENDS Integers, Sequences, FiniteSets, TLC

\* ------------------------------------------------------------------ bounds
\* Length of the media in ticks.
Duration == 3
\* Largest advance of the playhead between two timeupdate events.
MaxStep == 2
\* Number of play() calls followed.
MaxPlays == 3
\* Longest reference sentence and longest user input, in characters.
MaxRefLen == 3
MaxUserLen == 3
\* Longest string whose one-character variants are compared by isMatch.
MaxMatchLen == 2

VARIABLES
    \* --- AudioSlicerPlayer
    startTime,      \* prop startTime
    endTime,        \* prop endTime
    audioRef,       \* audioRef.current is the <audio> element (FALSE: null)
    currentTime,    \* audio.currentTime
    paused,         \* audio.paused
    listeners,      \* the element's 'timeupdate' listeners, in attach order
    checkTimeRef,   \* checkTimeRef.current
    isPlaying,      \* useState isPlaying
    playCount,      \* handlePlay calls so far; call n creates closure n
    startCount,     \* startCount[n]: onPlayStart invocations of call n
    endCount,       \* endCount[n]: onPlayEnd invocations of call n's checkTime
    lastOp,         \* the handler that ran last
    \* --- grading
    reference,      \* segments[currentIndex].sentence
    userInput,      \* useState userInput
    feedback,       \* useState feedback
    \* --- App
    status,         \* useState status
    audioFile,      \* useState audioFile
    audioUrl,       \* useState audioUrl
    segments,       \* useState segments (the sentences, in order)
    currentIndex,   \* useState currentIndex, counted from 0
    isProcessing,   \* useState isProcessing
    error,          \* useState error
    job,            \* how far the read and the transcription of startProcessing got
    appOp           \* the App handler that ran last, with its input

playerVars == <<startTime, endTime, audioRef, currentTime, paused, listeners,
                checkTimeRef, isPlaying, playCount, startCount, endCount, lastOp>>
gradeVars == <<reference, userInput, feedback>>
appVars == <<status, audioFile, audioUrl, segments, currentIndex, isProcessing, error, job, appOp>>
vars == <<playerVars, gradeVars, appVars>>

\* ================================================================== player

Calls == 1..MaxPlays

\* checkTimeRef.current === null
NoWatcher == [id |-> 0, endTime |-> 0]

\* The segment windows handed to the player: startTime may be negative (the
\* pre-roll is subtracted upstream), endTime may lie past the end of the media
\* (the post-roll is added upstream).
Windows == ((0 - 1)..(Duration - 1)) \X (1..(Duration + 1))

\* Math.max(0, startTime)
Max0(t) == IF t < 0 THEN 0 ELSE t

Min(a, b) == IF a < b THEN a ELSE b

\* EventTarget.removeEventListener('timeupdate', w): drops w when it is attached.
RemoveListener(ls, w) == SelectSeq(ls, LAMBDA x : x # w)

\* checkTime that fires without detaching itself.
checkTime_KeepListener(st, w, now) ==
    IF audioRef /\ now >= w.endTime
    THEN [paused       |-> TRUE,
          isPlaying    |-> FALSE,
          endCount     |-> [st.endCount EXCEPT ![w.id] = @ + 1],
          listeners    |-> st.listeners,
          checkTimeRef |-> NoWatcher]
    ELSE st

\* checkTime that compares with > instead of >=.
checkTime_Strict(st, w, now) ==
    IF audioRef /\ now > w.endTime
    THEN [paused       |-> TRUE,
          isPlaying    |-> FALSE,
          endCount     |-> [st.endCount EXCEPT ![w.id] = @ + 1],
          listeners    |-> RemoveListener(st.listeners, w),
          checkTimeRef |-> NoWatcher]
    ELSE st

\* checkTime that fires one tick before the boundary.
checkTime_Early(st, w, now) ==
    IF audioRef /\ now + 1 >= w.endTime
    THEN [paused       |-> TRUE,
          isPlaying    |-> FALSE,
          endCount     |-> [st.endCount EXCEPT ![w.id] = @ + 1],
          listeners    |-> RemoveListener(st.listeners, w),
          checkTimeRef |-> NoWatcher]
    ELSE st

\* The closure checkTime of one handlePlay call, run on a timeupdate at
\* position now; st holds what it may change.
checkTime(st, w, now) ==
    IF audioRef /\ now >= w.endTime
    THEN [paused       |-> TRUE,
          isPlaying    |-> FALSE,
          endCount     |-> [st.endCount EXCEPT ![w.id] = @ + 1],
          listeners    |-> RemoveListener(st.listeners, w),
          checkTimeRef |-> NoWatcher]
    ELSE st

\* Dispatch of one timeupdate event to the listeners attached when it starts.
RECURSIVE Dispatch(_, _, _)
Dispatch(st, ws, now) ==
    IF ws = <<>> THEN st
    ELSE Dispatch(checkTime(st, Head(ws), now), Tail(ws), now)

\* The mounted, idle player for the window [s, e]: the [startTime] effect has
\* positioned the playhead.
PlayerInitAt(s, e) ==
    /\ startTime = s
    /\ endTime = e
    /\ audioRef = TRUE
    /\ currentTime = Max0(s)
    /\ paused = TRUE
    /\ listeners = <<>>
    /\ checkTimeRef = NoWatcher
    /\ isPlaying = FALSE
    /\ playCount = 0
    /\ startCount = [n \in Calls |-> 0]
    /\ endCount = [n \in Calls |-> 0]
    /\ lastOp = "mount"

PlayerInit == \E w \in Windows : PlayerInitAt(w[1], w[2])

\* useState(null): no feedback.
NoFeedback == [present |-> FALSE, isCorrect |-> FALSE, original |-> <<>>, diff |-> <<>>]

GradeIdle ==
    /\ reference = <<>>
    /\ userInput = <<>>
    /\ feedback = NoFeedback

\* The largest accepted upload, in bytes.
MaxFileBytes == 20 * 1024 * 1024

\* useState(null): no file. A File is known by its size.
NoFile == [present |-> FALSE, size |-> 0]

\* The files offered to the file input: around the limit.
Files == {[present |-> TRUE, size |-> n] : n \in {MaxFileBytes - 1, MaxFileBytes, MaxFileBytes + 1}}

\* useState(null): no error message.
NoError == ""

TooLarge == "File is too large. Please upload an audio file under 20MB."

\* No App handler has run yet.
NoOp == [op |-> "none", key |-> "", size |-> 0]

\* The App right after construction.
AppIdle ==
    /\ status = "IDLE"
    /\ audioFile = NoFile
    /\ audioUrl = NoFile
    /\ segments = <<>>
    /\ currentIndex = 0
    /\ isProcessing = FALSE
    /\ error = NoError
    /\ job = "none"
    /\ appOp = NoOp

\* The App in a practice session whose only segment carries the sentence
\* `reference`: the state in which the player and the textarea are rendered.
Practising ==
    /\ status = "PRACTICING"
    /\ audioFile \in {f \in Files : f.size = MaxFileBytes}
    /\ audioUrl = audioFile
    /\ segments = <<reference>>
    /\ currentIndex = 0
    /\ isProcessing = FALSE
    /\ error = NoError
    /\ job = "none"
    /\ appOp = NoOp

\* handlePlay that attaches its watcher without detaching the previous one.
handlePlay_NoDetach ==
    /\ audioRef
    /\ playCount < MaxPlays
    /\ LET id == playCount + 1
           w  == [id |-> id, endTime |-> endTime]
       IN  /\ listeners' = Append(listeners, w)
           /\ currentTime' = Max0(startTime)
           /\ paused' = FALSE
           /\ isPlaying' = TRUE
           /\ startCount' = [startCount EXCEPT ![id] = @ + 1]
           /\ checkTimeRef' = w
           /\ playCount' = id
    /\ lastOp' = "play"
    /\ UNCHANGED <<startTime, endTime, audioRef, endCount, gradeVars, appVars>>

\* handlePlay that resumes from the current position instead of seeking.
handlePlay_NoSeek ==
    /\ audioRef
    /\ playCount < MaxPlays
    /\ LET id == playCount + 1
           w  == [id |-> id, endTime |-> endTime]
       IN  /\ listeners' = Append(IF checkTimeRef # NoWatcher
                                  THEN RemoveListener(listeners, checkTimeRef)
                                  ELSE listeners, w)
           /\ currentTime' = currentTime
           /\ paused' = FALSE
           /\ isPlaying' = TRUE
           /\ startCount' = [startCount EXCEPT ![id] = @ + 1]
           /\ checkTimeRef' = w
           /\ playCount' = id
    /\ lastOp' = "play"
    /\ UNCHANGED <<startTime, endTime, audioRef, endCount, gradeVars, appVars>>

\* handlePlay: the Play and Repeat buttons and the imperative play() handle.
handlePlay ==
    /\ audioRef
    /\ playCount < MaxPlays
    /\ LET id == playCount + 1
           w  == [id |-> id, endTime |-> endTime]
       IN  /\ listeners' = Append(IF checkTimeRef # NoWatcher
                                  THEN RemoveListener(listeners, checkTimeRef)
                                  ELSE listeners, w)
           /\ currentTime' = Max0(startTime)
           /\ paused' = FALSE
           /\ isPlaying' = TRUE
           /\ startCount' = [startCount EXCEPT ![id] = @ + 1]
           /\ checkTimeRef' = w
           /\ playCount' = id
    /\ lastOp' = "play"
    /\ UNCHANGED <<startTime, endTime, audioRef, endCount, gradeVars, appVars>>

\* One timeupdate event of the element.  While the media plays the playhead
\* has advanced by step >= 1 since the last event (it stops at the end of the
\* media, where the element pauses itself); step = 0 is the event that follows
\* a seek or a pause.
TimeUpdate(step) ==
    /\ step >= 1 => (~paused /\ currentTime < Duration)
    /\ LET now == Min(currentTime + step, Duration)
           st  == Dispatch([paused       |-> paused,
                            isPlaying    |-> isPlaying,
                            endCount     |-> endCount,
                            listeners    |-> listeners,
                            checkTimeRef |-> checkTimeRef], listeners, now)
       IN  /\ currentTime' = now
           /\ paused' = (st.paused \/ (step >= 1 /\ now = Duration))
           /\ isPlaying' = st.isPlaying
           /\ endCount' = st.endCount
           /\ listeners' = st.listeners
           /\ checkTimeRef' = st.checkTimeRef
    /\ lastOp' = "timeupdate"
    /\ UNCHANGED <<startTime, endTime, audioRef, playCount, startCount, gradeVars, appVars>>

\* The playback clock: the timeupdate events of a playing element.
Advance == \E step \in 1..MaxStep : TimeUpdate(step)

\* The timeupdate event after a seek or a pause.
Settle == TimeUpdate(0)

\* A render with another segment's window; the [startTime] effect seeks.
SetSegment(s, e) ==
    /\ audioRef
    /\ <<s, e>> # <<startTime, endTime>>
    /\ startTime' = s
    /\ endTime' = e
    /\ currentTime' = IF s # startTime THEN Max0(s) ELSE currentTime
    /\ lastOp' = "segment"
    /\ UNCHANGED <<audioRef, paused, listeners, checkTimeRef, isPlaying,
                   playCount, startCount, endCount, gradeVars, appVars>>

Navigate == \E w \in Windows : SetSegment(w[1], w[2])

\* Unmount: React clears audioRef.current when it deletes the <audio> node and
\* runs the effect's cleanup; which of the two comes first depends on the
\* React version (refStillSet: the cleanup sees the element).  The cleanup
\* removes the listener and nothing else: it calls neither pause() nor
\* setIsPlaying, and leaves checkTimeRef.current as it is.
UnmountWith(refStillSet) ==
    /\ audioRef
    /\ listeners' = IF refStillSet /\ checkTimeRef # NoWatcher
                    THEN RemoveListener(listeners, checkTimeRef)
                    ELSE listeners
    /\ audioRef' = FALSE
    /\ lastOp' = "unmount"
    /\ UNCHANGED <<startTime, endTime, currentTime, paused, checkTimeRef,
                   isPlaying, playCount, startCount, endCount, gradeVars, appVars>>

Unmount == \E refStillSet \in BOOLEAN : UnmountWith(refStillSet)

Init == PlayerInit /\ GradeIdle /\ Practising

Next == handlePlay \/ Advance \/ Settle \/ Navigate \/ Unmount

Spec == Init /\ [][Next]_vars

\* ================================================================= grading

\* The characters strings are made of: a letter, its capital, a punctuation
\* mark and a blank.
Alphabet == {"a", "A", ".", " "}

Strings(n) == UNION {[1..k -> Alphabet] : k \in 0..n}

\* The characters /\s/ matches and trim() strips.
WhiteSpace == {" ", "\t", "\n", "\r"}

IsSpace(c) == c \in WhiteSpace

\* The character class [.,!?;:]
Punctuation == {".", ",", "!", "?", ";", ":"}

\* String.prototype.toLowerCase, one character.
LowerChar(c) == IF c = "A" THEN "a" ELSE c

toLowerCase(s) == [i \in 1..Len(s) |-> LowerChar(s[i])]

\* .replace(/[.,!?;:]/g, "")
StripPunct(s) == SelectSeq(s, LAMBDA c : c \notin Punctuation)

RECURSIVE TrimLeft(_)
TrimLeft(s) ==
    IF s # <<>> /\ IsSpace(Head(s)) THEN TrimLeft(Tail(s)) ELSE s

RECURSIVE TrimRight(_)
TrimRight(s) ==
    IF s # <<>> /\ IsSpace(s[Len(s)]) THEN TrimRight(SubSeq(s, 1, Len(s) - 1)) ELSE s

\* String.prototype.trim
trim(s) == TrimRight(TrimLeft(s))

\* The first index >= i of s that holds no white space (Len(s) + 1 if none).
RECURSIVE SkipSpace(_, _)
SkipSpace(s, i) ==
    IF i <= Len(s) /\ IsSpace(s[i]) THEN SkipSpace(s, i + 1) ELSE i

\* String.prototype.split(/\s+/): the pieces between the white-space runs; a
\* string that starts (ends) with white space has an empty first (last) piece,
\* and the empty string splits into one empty piece.
RECURSIVE SplitFrom(_, _, _)
SplitFrom(s, i, cur) ==
    IF i > Len(s) THEN <<cur>>
    ELSE IF IsSpace(s[i]) THEN <<cur>> \o SplitFrom(s, SkipSpace(s, i), <<>>)
    ELSE SplitFrom(s, i + 1, Append(cur, s[i]))

split(s) == SplitFrom(s, 1, <<>>)

cleanWord(word) == trim(StripPunct(toLowerCase(word)))

\* normalizeText that trims before it strips the punctuation.
normalizeText_TrimFirst(text) == StripPunct(toLowerCase(trim(text)))

normalizeText(text) == trim(StripPunct(toLowerCase(text)))

\* generateDiff that annotates the words the user typed.
generateDiff_OverUser(original, user) ==
    LET originalWords == split(original)
        userWords == split(user)
    IN  [index \in 1..Len(userWords) |->
            [text      |-> userWords[index],
             isCorrect |-> /\ index <= Len(originalWords)
                           /\ cleanWord(userWords[index]) = cleanWord(originalWords[index])]]

\* userWords[index] is undefined past the end of userWords and then equals no
\* string.
generateDiff(original, user) ==
    LET originalWords == split(original)
        userWords == [i \in 1..Len(split(user)) |-> cleanWord(split(user)[i])]
    IN  [index \in 1..Len(originalWords) |->
            [text      |-> originalWords[index],
             isCorrect |-> /\ index <= Len(userWords)
                           /\ userWords[index] = cleanWord(originalWords[index])]]

\* isMatch that compares the normalised input with the sentence as written.
isMatch_RawOriginal(original, user) == normalizeText(user) = original

\* The verdict of handleSubmit.
isMatch(original, user) == normalizeText(user) = normalizeText(original)

\* ===================================================================== App

\* The longest text typed into the textarea.
MaxTypedLen == 1
\* The most segments a transcription returns.
MaxSegments == 2

\* The sentences a transcription returns.
Sentences == {<<"a">>, <<"A", ".">>, <<" ", "a">>}

\* The arrays transcribeAndSegment resolves with, the empty one included.
Results == UNION {[1..k -> Sentences] : k \in 0..MaxSegments}

\* segments[currentIndex].sentence; the empty string where the render has no
\* currentSegment.
CurrentSentence(segs, idx) == IF idx + 1 \in 1..Len(segs) THEN segs[idx + 1] ELSE <<>>

\* What a handler leaves alone when it only touches the practice state.
uploadVars == <<audioFile, audioUrl, segments, isProcessing, error, job>>

Op(name) == [op |-> name, key |-> "", size |-> 0]

\* handleFileUpload that rejects a file of exactly the limit.
handleFileUpload_AtLimit(file) ==
    /\ status = "IDLE"
    /\ IF file.size >= MaxFileBytes
         THEN /\ error' = TooLarge
              /\ UNCHANGED <<audioFile, audioUrl, status>>
         ELSE /\ audioFile' = file
              /\ audioUrl' = file
              /\ status' = "IDLE"
              /\ error' = NoError
    /\ appOp' = [op |-> "handleFileUpload", key |-> "", size |-> file.size]
    /\ UNCHANGED <<segments, currentIndex, isProcessing, job, gradeVars, playerVars>>

\* The file input is rendered in the IDLE view only.
handleFileUpload(file) ==
    /\ status = "IDLE"
    /\ IF file.size > MaxFileBytes
         THEN /\ error' = TooLarge
              /\ UNCHANGED <<audioFile, audioUrl, status>>
         ELSE /\ audioFile' = file
              /\ audioUrl' = file
              /\ status' = "IDLE"
              /\ error' = NoError
    /\ appOp' = [op |-> "handleFileUpload", key |-> "", size |-> file.size]
    /\ UNCHANGED <<segments, currentIndex, isProcessing, job, gradeVars, playerVars>>

SelectFile == \E file \in Files : handleFileUpload(file)

\* The button is rendered in the IDLE view once a file is selected. The
\* statements in the try block (create the reader, start the read, assign
\* onload) do not throw, so the catch block never runs.
startProcessing ==
    /\ status = "IDLE"
    /\ audioFile.present
    /\ isProcessing' = TRUE
    /\ error' = NoError
    /\ status' = "PROCESSING"
    /\ job' = "reading"
    /\ appOp' = Op("startProcessing")
    /\ UNCHANGED <<audioFile, audioUrl, segments, currentIndex, gradeVars, playerVars>>

\* reader.onload up to its await: the read is done, transcribeAndSegment is
\* called.
onload ==
    /\ job = "reading"
    /\ job' = "calling"
    /\ appOp' = Op("onload")
    /\ UNCHANGED <<status, audioFile, audioUrl, segments, currentIndex, isProcessing, error,
                   gradeVars, playerVars>>

\* The rest of reader.onload without the check for an empty array.
onloadResolved_NoCheck(result) ==
    /\ job = "calling"
    /\ segments' = result
    /\ status' = "PRACTICING"
    /\ currentIndex' = 0
    /\ isProcessing' = FALSE
    /\ job' = "none"
    /\ reference' = CurrentSentence(result, 0)
    /\ appOp' = Op("onloadResolved")
    /\ UNCHANGED <<audioFile, audioUrl, error, userInput, feedback, playerVars>>

\* The rest of reader.onload without setCurrentIndex(0).
onloadResolved_KeepIndex(result) ==
    /\ job = "calling"
    /\ IF Len(result) = 0
         THEN /\ job' = "empty"
              /\ UNCHANGED <<segments, status, currentIndex, isProcessing, reference>>
         ELSE /\ segments' = result
              /\ status' = "PRACTICING"
              /\ UNCHANGED currentIndex
              /\ isProcessing' = FALSE
              /\ job' = "none"
              /\ reference' = CurrentSentence(result, currentIndex)
    /\ appOp' = Op("onloadResolved")
    /\ UNCHANGED <<audioFile, audioUrl, error, userInput, feedback, playerVars>>

\* The rest of reader.onload once transcribeAndSegment has resolved. The throw
\* on an empty array happens in the async callback, after startProcessing has
\* left its try block: it rejects the callback's promise and no handler sees it.
onloadResolved(result) ==
    /\ job = "calling"
    /\ IF Len(result) = 0
         THEN /\ job' = "empty"
              /\ UNCHANGED <<segments, status, currentIndex, isProcessing, reference>>
         ELSE /\ segments' = result
              /\ status' = "PRACTICING"
              /\ currentIndex' = 0
              /\ isProcessing' = FALSE
              /\ job' = "none"
              /\ reference' = CurrentSentence(result, 0)
    /\ appOp' = Op("onloadResolved")
    /\ UNCHANGED <<audioFile, audioUrl, error, userInput, feedback, playerVars>>

Transcribed == \E result \in Results : onloadResolved(result)

\* transcribeAndSegment rejects (the request or JSON.parse failed and the
\* service rethrew): the await in reader.onload throws, again outside the try
\* block of startProcessing.
onloadRejected ==
    /\ job = "calling"
    /\ job' = "rejected"
    /\ appOp' = Op("onloadRejected")
    /\ UNCHANGED <<status, audioFile, audioUrl, segments, currentIndex, isProcessing, error,
                   gradeVars, playerVars>>

\* The feedback of a graded submission.
Graded ==
    [present   |-> TRUE,
     isCorrect |-> isMatch(reference, userInput),
     original  |-> reference,
     diff      |-> generateDiff(reference, userInput)]

\* handleSubmit without its first line.
handleSubmit_NoGuard ==
    /\ feedback' = Graded
    /\ UNCHANGED <<reference, userInput, status, currentIndex>>

handleSubmit ==
    /\ feedback' = IF trim(userInput) = <<>> THEN feedback ELSE Graded
    /\ UNCHANGED <<reference, userInput, status, currentIndex>>

\* handleNext that leaves the feedback in place.
handleNext_KeepFeedback ==
    IF currentIndex < Len(segments) - 1
      THEN /\ currentIndex' = currentIndex + 1
           /\ userInput' = <<>>
           /\ reference' = CurrentSentence(segments, currentIndex + 1)
           /\ UNCHANGED <<status, feedback>>
      ELSE /\ status' = "COMPLETED"
           /\ UNCHANGED <<currentIndex, userInput, feedback, reference>>

handleNext ==
    IF currentIndex < Len(segments) - 1
      THEN /\ currentIndex' = currentIndex + 1
           /\ userInput' = <<>>
           /\ feedback' = NoFeedback
           /\ reference' = CurrentSentence(segments, currentIndex + 1)
           /\ UNCHANGED status
      ELSE /\ status' = "COMPLETED"
           /\ UNCHANGED <<currentIndex, userInput, feedback, reference>>

handlePrev ==
    IF currentIndex > 0
      THEN /\ currentIndex' = currentIndex - 1
           /\ userInput' = <<>>
           /\ feedback' = NoFeedback
           /\ reference' = CurrentSentence(segments, currentIndex - 1)
           /\ UNCHANGED status
      ELSE UNCHANGED <<currentIndex, userInput, feedback, reference, status>>

\* The practice view is rendered: status is PRACTICING, currentSegment and
\* audioUrl are set.
PracticeView ==
    /\ status = "PRACTICING"
    /\ currentIndex + 1 \in 1..Len(segments)
    /\ audioUrl.present

\* feedback?.isCorrect
feedbackIsCorrect == feedback.present /\ feedback.isCorrect

\* The textarea's onChange; the textarea is disabled while the feedback is
\* correct.
onChange(value) ==
    /\ PracticeView
    /\ ~feedbackIsCorrect
    /\ value # userInput
    /\ userInput' = value
    /\ feedback' = IF feedback.present /\ ~feedback.isCorrect THEN NoFeedback ELSE feedback
    /\ appOp' = Op("onChange")
    /\ UNCHANGED <<reference, status, currentIndex, uploadVars, playerVars>>

Type == \E value \in Strings(MaxTypedLen) : onChange(value)

\* The Check Answer / Try Again button: rendered unless the feedback is
\* correct, disabled while the input is blank.
SubmitButton ==
    /\ PracticeView
    /\ ~feedbackIsCorrect
    /\ trim(userInput) # <<>>
    /\ handleSubmit
    /\ appOp' = Op("SubmitButton")
    /\ UNCHANGED <<uploadVars, playerVars>>

Keys == {"Enter", "ArrowLeft", "ArrowRight"}

\* handleTextareaKeyDown for Enter without Shift and for Alt with an arrow.
handleTextareaKeyDown(key) ==
    /\ PracticeView
    /\ CASE key = "Enter" -> IF feedbackIsCorrect THEN handleNext ELSE handleSubmit
         [] key = "ArrowLeft" -> handlePrev
         [] key = "ArrowRight" -> handleNext
    /\ appOp' = [op |-> "handleTextareaKeyDown", key |-> key, size |-> 0]
    /\ UNCHANGED <<uploadVars, playerVars>>

TextareaKey == \E key \in Keys : handleTextareaKeyDown(key)

\* handleGlobalKeyDown for Enter without Shift and for the arrows; isTyping
\* tells whether the textarea has the focus.
handleGlobalKeyDown(key, isTyping) ==
    /\ status = "PRACTICING"
    /\ IF isTyping
         THEN UNCHANGED <<reference, userInput, feedback, status, currentIndex>>
         ELSE CASE key = "Enter" ->
                     IF feedbackIsCorrect THEN handleNext
                     ELSE IF trim(userInput) # <<>> THEN handleSubmit
                     ELSE UNCHANGED <<reference, userInput, feedback, status, currentIndex>>
                [] key = "ArrowLeft" -> handlePrev
                [] key = "ArrowRight" -> handleNext
    /\ appOp' = [op |-> IF isTyping THEN "handleGlobalKeyDown typing" ELSE "handleGlobalKeyDown",
                 key |-> key, size |-> 0]
    /\ UNCHANGED <<uploadVars, playerVars>>

GlobalKey == \E key \in Keys, isTyping \in BOOLEAN : handleGlobalKeyDown(key, isTyping)

\* The chevron buttons beside the player.
PrevButton ==
    /\ PracticeView
    /\ currentIndex # 0
    /\ handlePrev
    /\ appOp' = Op("PrevButton")
    /\ UNCHANGED <<uploadVars, playerVars>>

NextButton ==
    /\ PracticeView
    /\ currentIndex # Len(segments) - 1
    /\ handleNext
    /\ appOp' = Op("NextButton")
    /\ UNCHANGED <<uploadVars, playerVars>>

\* The Next Sentence / Finish Session button under a correct feedback.
ContinueButton ==
    /\ PracticeView
    /\ feedbackIsCorrect
    /\ handleNext
    /\ appOp' = Op("ContinueButton")
    /\ UNCHANGED <<uploadVars, playerVars>>

\* What Cancel Session (confirmed) and Practice Another Clip both do.
resetSession ==
    /\ status' = "IDLE"
    /\ audioFile' = NoFile
    /\ segments' = <<>>
    /\ feedback' = NoFeedback
    /\ userInput' = <<>>
    /\ reference' = CurrentSentence(<<>>, currentIndex)
    /\ UNCHANGED <<audioUrl, currentIndex, isProcessing, error, job, playerVars>>

CancelSession ==
    /\ PracticeView
    /\ resetSession
    /\ appOp' = Op("CancelSession")

PracticeAnother ==
    /\ status = "COMPLETED"
    /\ resetSession
    /\ appOp' = Op("PracticeAnother")

AppInit == PlayerInitAt(0, 1) /\ GradeIdle /\ AppIdle

AppNext ==
    \/ SelectFile
    \/ startProcessing
    \/ onload
    \/ Transcribed
    \/ onloadRejected
    \/ Type
    \/ SubmitButton
    \/ TextareaKey
    \/ GlobalKey
    \/ PrevButton
    \/ NextButton
    \/ ContinueButton
    \/ CancelSession
    \/ PracticeAnother

AppSpec == AppInit /\ [][AppNext]_vars

\* The current segment's sentence and the text in the textarea, before a
\* submission.
GradeInit ==
    /\ PlayerInitAt(0, 1)
    /\ reference \in Strings(MaxRefLen)
    /\ userInput \in Strings(MaxUserLen)
    /\ feedback = NoFeedback
    /\ Practising

GradeNext == SubmitButton

GradeSpec == GradeInit /\ [][GradeNext]_vars

\* The same, over the short strings whose variants C10 compares.
MatchInit ==
    /\ PlayerInitAt(0, 1)
    /\ reference \in Strings(MaxMatchLen)
    /\ userInput \in Strings(MaxMatchLen)
    /\ feedback = NoFeedback
    /\ Practising

MatchSpec == MatchInit /\ [][GradeNext]_vars

\* The longest sentence whose white-space runs are varied, and the most
\* blanks added to a run.
MaxRunLen == 4
MaxExtra == 1

\* Position i of s is white space with a word somewhere before it and a word
\* somewhere after it.
InternalAt(s, i) ==
    /\ IsSpace(s[i])
    /\ \E j \in 1..(i - 1) : ~IsSpace(s[j])
    /\ \E j \in (i + 1)..Len(s) : ~IsSpace(s[j])

\* s with k more blanks at position i.
Widen(s, i, k) == SubSeq(s, 1, i - 1) \o [j \in 1..k |-> " "] \o SubSeq(s, i, Len(s))

\* A sentence and a typed text that is the sentence with one internal run of
\* white space made longer, or the other way round.
RunInit ==
    /\ PlayerInitAt(0, 1)
    /\ \E s \in Strings(MaxRunLen) :
         \E i \in {j \in 1..Len(s) : InternalAt(s, j)}, k \in 1..MaxExtra :
            \/ reference = s /\ userInput = Widen(s, i, k)
            \/ reference = Widen(s, i, k) /\ userInput = s
    /\ feedback = NoFeedback
    /\ Practising

RunSpec == RunInit /\ [][GradeNext]_vars

\* The host keeps the segment fixed while it plays; the playback clock keeps
\* delivering timeupdate events as long as the element plays.
LiveNext == handlePlay \/ Advance \/ Settle \/ Unmount

LiveSpec == Init /\ [][LiveNext]_vars /\ WF_vars(Advance)

\* ============================================================ player claims

\* The watcher of call n is attached to the element.
Attached(n) == \E i \in 1..Len(listeners) : listeners[i].id = n

\* C1: at most one timeupdate listener is attached to the audio element in
\* every reachable state, and the one attached is the watcher of the latest
\* play() call (a play() call detached the previous one before attaching).
C1_SingleWatcher ==
    /\ Len(listeners) <= 1
    /\ listeners # <<>> => (listeners = <<checkTimeRef>> /\ checkTimeRef.id = playCount)

\* A second play() superseded a watcher that was still attached.
C1_Witness ==
    /\ lastOp = "play"
    /\ playCount = 2
    /\ endCount[1] = 0
    /\ listeners = <<checkTimeRef>>

\* C2: the onEnd of every play() call is invoked at most once; it is invoked
\* by the timeupdate that reports a position at or past endTime while the
\* call's watcher is attached, and never once another play() call or the
\* teardown has happened.
C2_OnEndAtMostOnce ==
    /\ [](\A n \in Calls : endCount[n] <= 1)
    /\ [][\A n \in Calls :
            /\ (playCount > n \/ ~audioRef) => endCount'[n] = endCount[n]
            /\ \A i \in 1..Len(listeners) :
                 (/\ audioRef
                  /\ listeners[i].id = n
                  /\ lastOp' = "timeupdate"
                  /\ currentTime' >= listeners[i].endTime)
                 => endCount'[n] = endCount[n] + 1]_vars

\* Call 1 ended at its boundary, call 2 plays and timeupdates keep arriving.
C2_Witness ==
    /\ lastOp = "timeupdate"
    /\ playCount = 2
    /\ endCount[1] = 1
    /\ endCount[2] = 0
    /\ Attached(2)
    /\ currentTime > Max0(startTime)

\* C3: once a later play() call has invoked its onStart, the onEnd of an
\* earlier call is never invoked again.
C3_NoStaleOnEnd ==
    [][\A n \in Calls :
         (\E m \in Calls : m > n /\ startCount'[m] > 0) => endCount'[n] = endCount[n]]_vars

\* Call 1 was superseded while attached; timeupdates then carried call 2 past
\* the boundary, and only call 2's onEnd ran.
C3_Witness ==
    /\ lastOp = "timeupdate"
    /\ playCount = 2
    /\ startCount[2] = 1
    /\ endCount[1] = 0
    /\ endCount[2] = 1

\* Call n's session is the active one.
Active(n) == checkTimeRef.id = n /\ listeners = <<checkTimeRef>>

\* Call n's session ended at its boundary.
Ended(n) ==
    /\ endCount[n] = 1
    /\ paused
    /\ ~isPlaying
    /\ listeners = <<>>
    /\ checkTimeRef = NoWatcher

\* The media ended before the playhead could reach endTime.
MediaOver == paused /\ currentTime = Duration /\ endTime > Duration

\* C4: with endTime > startTime, an active session whose playback is not
\* superseded, torn down or cut short by the end of the media eventually
\* invokes onEnd exactly once, pauses and detaches its watcher.
C4_EventuallyEnds ==
    /\ [](\A n \in Calls : endCount[n] <= 1)
    /\ \A n \in Calls :
         (Active(n) /\ endTime > startTime)
            ~> (Ended(n) \/ playCount > n \/ ~audioRef \/ MediaOver)

\* A window of one tick ended by a single timeupdate that jumped past it.
C4_Witness ==
    /\ playCount = 1
    /\ endTime - Max0(startTime) = 1
    /\ currentTime > endTime
    /\ Ended(1)

\* C5: a timeupdate below the attached watcher's endTime changes nothing the
\* watcher controls, and the first timeupdate at or past endTime invokes its
\* onEnd; onEnd is invoked by no other step.
C5_FiresAtBoundary ==
    [][/\ (audioRef /\ listeners # <<>> /\ lastOp' = "timeupdate") =>
            IF currentTime' < listeners[1].endTime
            THEN /\ UNCHANGED <<endCount, listeners, checkTimeRef, isPlaying>>
                 /\ paused' => (paused \/ currentTime' = Duration)
            ELSE endCount'[listeners[1].id] = endCount[listeners[1].id] + 1
       /\ \A n \in Calls :
            endCount'[n] # endCount[n] =>
                /\ lastOp' = "timeupdate"
                /\ \E i \in 1..Len(listeners) :
                     listeners[i].id = n /\ currentTime' >= listeners[i].endTime]_vars

\* A window of three ticks: one timeupdate below the boundary, then the one
\* that reaches it.
C5_Witness ==
    /\ lastOp = "timeupdate"
    /\ playCount = 1
    /\ endCount[1] = 1
    /\ currentTime = endTime
    /\ endTime - Max0(startTime) > MaxStep

\* C6: after the teardown of an active session the playback is paused, no
\* watcher is attached and the session's onEnd has not been invoked.
C6_TeardownStops ==
    (~audioRef /\ checkTimeRef # NoWatcher) =>
        /\ paused
        /\ listeners = <<>>
        /\ endCount[checkTimeRef.id] = 0

\* C7: right after every play() call the playhead is at max(0, startTime),
\* the element plays, onStart has run once for the call and the only watcher
\* is the call's own, for the current window, whatever the state before; the
\* playhead is never negative.
C7_PlayIsFresh ==
    /\ currentTime >= 0
    /\ lastOp = "play" =>
        /\ currentTime = Max0(startTime)
        /\ ~paused
        /\ isPlaying
        /\ \A n \in 1..playCount : startCount[n] = 1
        /\ listeners = <<[id |-> playCount, endTime |-> endTime]>>
        /\ checkTimeRef = listeners[1]

\* A third play() from a negative startTime, after call 1 stopped at its
\* boundary and while call 2 was playing.
C7_Witness ==
    /\ lastOp = "play"
    /\ playCount = 3
    /\ startTime < 0
    /\ endCount[1] = 1
    /\ endCount[2] = 0

\* =========================================================== grading claims

\* The positions where a word (a maximal run of non-white-space characters)
\* of s starts.
WordStarts(s) == {i \in 1..Len(s) : ~IsSpace(s[i]) /\ (i = 1 \/ IsSpace(s[i - 1]))}

\* The number of words of s.
WordCount(s) == Cardinality(WordStarts(s))

\* The n-th word of s, 1 <= n <= WordCount(s).
Word(s, n) ==
    LET b == CHOOSE i \in WordStarts(s) : Cardinality({j \in WordStarts(s) : j < i}) = n - 1
        e == CHOOSE j \in b..Len(s) :
                /\ \A k \in b..j : ~IsSpace(s[k])
                /\ j = Len(s) \/ IsSpace(s[j + 1])
    IN  SubSeq(s, b, e)

\* A sentence as the Segment data model has it: not empty, no white space at
\* either end.
Trimmed(s) == s # <<>> /\ ~IsSpace(s[1]) /\ ~IsSpace(s[Len(s)])

\* C8 as stated: for every reference and every user input the diff of a
\* submission has as many annotations as the reference has words.
C8_Original == feedback.present => Len(feedback.diff) = WordCount(reference)

\* C8 (amended): for every reference that is not empty and has no leading or
\* trailing white space, and every user input, the number of annotations of
\* the diff equals the number of words of the reference.
C8_DiffLength ==
    Trimmed(reference) =>
        /\ Len(generateDiff(reference, userInput)) = WordCount(reference)
        /\ feedback.present => Len(feedback.diff) = WordCount(reference)

\* A two-word reference graded against one word typed after a leading blank.
C8_Witness ==
    /\ feedback.present
    /\ reference = <<"a", " ", "A">>
    /\ userInput = <<" ", "a">>
    /\ Len(feedback.diff) = 2

\* C9: annotation i of a submission's diff carries the i-th word of the
\* reference and is marked correct exactly when the user typed an i-th word
\* that, lower-cased and stripped of punctuation, equals the i-th reference
\* word treated the same way (references as the Segment data model has them).
C9_Positional ==
    (feedback.present /\ Trimmed(reference)) =>
        /\ Len(feedback.diff) = WordCount(reference)
        /\ \A i \in 1..Len(feedback.diff) :
             /\ feedback.diff[i].text = Word(reference, i)
             /\ feedback.diff[i].isCorrect =
                   (/\ i <= WordCount(userInput)
                    /\ StripPunct(toLowerCase(Word(userInput, i)))
                          = StripPunct(toLowerCase(Word(reference, i))))

\* The strings that differ from s by the case of one letter.
CaseVariants(s) ==
    UNION {{[s EXCEPT ![i] = c] : c \in {d \in {"a", "A"} : LowerChar(d) = LowerChar(s[i])}}
           : i \in 1..Len(s)}

\* The strings that are s with one punctuation character added somewhere.
PunctAdded(s) ==
    {SubSeq(s, 1, i) \o <<c>> \o SubSeq(s, i + 1, Len(s)) : i \in 0..Len(s), c \in Punctuation}

\* The strings that are s with one of its punctuation characters removed.
PunctRemoved(s) ==
    {SubSeq(s, 1, i - 1) \o SubSeq(s, i + 1, Len(s)) : i \in {j \in 1..Len(s) : s[j] \in Punctuation}}

Variants(s) == CaseVariants(s) \cup PunctAdded(s) \cup PunctRemoved(s)

\* C10: changing the case of a letter, adding a punctuation character or
\* removing one, in the reference or in the user input, does not change
\* isMatch, and the verdict of a submission is that isMatch.
C10_CasePunctInsensitive ==
    /\ \A r \in Variants(reference) : isMatch(r, userInput) = isMatch(reference, userInput)
    /\ \A u \in Variants(userInput) : isMatch(reference, u) = isMatch(reference, userInput)
    /\ feedback.present =>
          \A r \in Variants(reference) : isMatch(r, userInput) = feedback.isCorrect

\* A capital followed by a full stop, matched by the bare letter.
C10_Witness ==
    /\ feedback.present
    /\ feedback.isCorrect
    /\ reference = <<"A", ".">>
    /\ userInput = <<"a">>

\* C11: normalising a normalised string changes nothing, for the sentence and
\* for the typed text, so a submission's verdict is also the verdict on the
\* two normalised strings.
C11_Idempotent ==
    /\ normalizeText(normalizeText(reference)) = normalizeText(reference)
    /\ normalizeText(normalizeText(userInput)) = normalizeText(userInput)
    /\ feedback.present =>
          feedback.isCorrect = isMatch(normalizeText(reference), normalizeText(userInput))

\* A submission of text that normalisation changes at both ends.
C11_Witness ==
    /\ feedback.present
    /\ userInput = <<" ", "A", ".">>
    /\ reference = <<".", " ", "a">>
    /\ normalizeText(userInput) = <<"a">>
    /\ feedback.isCorrect

\* C12: every non-empty string matches itself, and a submission of the
\* reference sentence itself is graded correct.
C12_Reflexive ==
    /\ reference # <<>> => isMatch(reference, reference)
    /\ userInput # <<>> => isMatch(userInput, userInput)
    /\ (feedback.present /\ userInput = reference) => feedback.isCorrect

\* The sentence "A ." submitted as its own answer.
C12_Witness ==
    /\ feedback.present
    /\ reference = <<"A", " ", ".">>
    /\ userInput = reference
    /\ feedback.isCorrect

\* ================================================================ App claims

\* C13: once the transcription started by startProcessing has failed (the
\* call rejected, or resolved with an empty array) and reader.onload has
\* ended, the host has recorded an error, cleared the processing flag and
\* returned to IDLE. Nothing else runs after that point: the PROCESSING view
\* has no control.
C13_FailureReturnsToIdle ==
    job \in {"rejected", "empty"} =>
        /\ status = "IDLE"
        /\ error # NoError
        /\ ~isProcessing

\* C14: whenever the status is PRACTICING there is at least one segment.
C14_PractisingHasSegments == status = "PRACTICING" => Len(segments) >= 1

\* A transcription of two sentences has just opened the practice view.
C14_Witness ==
    /\ appOp.op = "onloadResolved"
    /\ status = "PRACTICING"
    /\ Len(segments) = 2
    /\ ~isProcessing

\* C15: selecting a file of more than 20 MiB (20971520 bytes) sets the error
\* and leaves the selected file, its URL, the status and the segments as they
\* were; selecting a file of 20 MiB or less makes it the selected file and
\* clears the error.
C15_SizeLimit ==
    [][appOp'.op = "handleFileUpload" =>
          IF appOp'.size > 20971520
            THEN /\ error' # NoError
                 /\ UNCHANGED <<audioFile, audioUrl, status, segments>>
            ELSE /\ audioFile' = [present |-> TRUE, size |-> appOp'.size]
                 /\ audioUrl'.present
                 /\ error' = NoError]_vars

\* A file one byte over the limit was refused while a file of exactly the
\* limit stays selected.
C15_Witness ==
    /\ appOp.op = "handleFileUpload"
    /\ appOp.size = 20971521
    /\ error = TooLarge
    /\ audioFile = [present |-> TRUE, size |-> 20971520]
    /\ status = "IDLE"

\* The handler that ran last was a submit: the button, Enter in the textarea
\* or Enter outside it.
SubmitRan(o) ==
    \/ o.op = "SubmitButton"
    \/ o.op \in {"handleTextareaKeyDown", "handleGlobalKeyDown", "handleGlobalKeyDown typing"}
       /\ o.key = "Enter"

\* C16: a submit through any of the three paths while the input is empty or
\* only white space changes neither the feedback nor any other variable of
\* the session.
C16_BlankSubmitIsNoOp ==
    [][(trim(userInput) = <<>> /\ SubmitRan(appOp')) =>
          UNCHANGED <<feedback, userInput, reference, status, currentIndex, segments,
                      audioFile, audioUrl, isProcessing, error, job>>]_vars

\* Enter was pressed in the textarea of the second segment while it held one
\* blank: still no feedback.
C16_Witness ==
    /\ appOp = [op |-> "handleTextareaKeyDown", key |-> "Enter", size |-> 0]
    /\ userInput = <<" ">>
    /\ ~feedback.present
    /\ status = "PRACTICING"
    /\ currentIndex = 1

\* ==================================================== grading claims, again

\* The ways s and t differ only in the length of one internal white-space
\* run: <<a, m, n>> where both start with the same a characters, the last of
\* them not white space, followed by m white-space characters in s and n in
\* t, m # n, followed by the same non-empty rest that starts a word.
RunSplits(s, t) ==
    {x \in (1..Len(s)) \X (1..Len(s)) \X (1..Len(t)) :
        /\ x[2] # x[3]
        /\ x[1] + x[2] < Len(s)
        /\ x[1] + x[3] < Len(t)
        /\ SubSeq(s, 1, x[1]) = SubSeq(t, 1, x[1])
        /\ ~IsSpace(s[x[1]])
        /\ \A j \in (x[1] + 1)..(x[1] + x[2]) : IsSpace(s[j])
        /\ \A j \in (x[1] + 1)..(x[1] + x[3]) : IsSpace(t[j])
        /\ ~IsSpace(s[x[1] + x[2] + 1])
        /\ SubSeq(s, x[1] + x[2] + 1, Len(s)) = SubSeq(t, x[1] + x[3] + 1, Len(t))}

\* Every annotation of the diff d is marked correct.
AllCorrect(d) == \A i \in 1..Len(d) : d[i].isCorrect

\* A character that normalizeText keeps and trim() does not remove.
Kept(c) == c \notin Punctuation /\ ~IsSpace(c)

\* The run of s that starts after its first x[1] characters has a kept
\* character somewhere before it and somewhere after it.
RunSurvives(s, x) ==
    /\ \E j \in 1..x[1] : Kept(s[j])
    /\ \E j \in (x[1] + x[2] + 1)..Len(s) : Kept(s[j])

\* C17 as stated: if the sentence and the typed text differ only in the
\* length of an internal white-space run, isMatch is false and the diff marks
\* every word of the sentence correct.
C17_Original ==
    RunSplits(reference, userInput) # {} =>
        /\ ~isMatch(reference, userInput)
        /\ AllCorrect(generateDiff(reference, userInput))
        /\ feedback.present => (~feedback.isCorrect /\ AllCorrect(feedback.diff))

\* C17 (amended): if the sentence and the typed text differ only in the length
\* of an internal white-space run, the diff marks every word of the sentence
\* correct, and isMatch is false exactly when a character other than
\* punctuation and white space stands somewhere before the run and somewhere
\* after it.
C17_RunLength ==
    \A x \in RunSplits(reference, userInput) :
        /\ isMatch(reference, userInput) = ~RunSurvives(reference, x)
        /\ AllCorrect(generateDiff(reference, userInput))
        /\ feedback.present =>
              /\ feedback.isCorrect = ~RunSurvives(reference, x)
              /\ AllCorrect(feedback.diff)

\* "a a" answered with "a  a": graded wrong, both words marked correct.
C17_Witness ==
    /\ feedback.present
    /\ reference = <<"a", " ", "a">>
    /\ userInput = <<"a", " ", " ", "a">>
    /\ ~feedback.isCorrect
    /\ Len(feedback.diff) = 2
    /\ AllCorrect(feedback.diff)

\* C18: whenever a submission is graded correct, every annotation of the
\* diff stored with that feedback is marked correct.
C18_VerdictAgreesWithDiff == feedbackIsCorrect => AllCorrect(feedback.diff)

\* ===================================================== player claims, again

\* C19: while the player is mounted, every attached watcher compares the
\* playhead against the endTime of the segment the player is currently given.
C19_WatcherFollowsSegment ==
    audioRef => \A i \in 1..Len(listeners) : listeners[i].endTime = endTime

\* C20: while the player is mounted, isPlaying is true exactly when a watcher
\* is attached to the element, and exactly when checkTimeRef holds one.
C20_PlayingIffWatching ==
    audioRef =>
        /\ isPlaying = (listeners # <<>>)
        /\ isPlaying = (checkTimeRef # NoWatcher)

\* The second play() superseded the first and then reached its boundary:
\* indicator and watcher are both gone.
C20_Witness ==
    /\ audioRef
    /\ lastOp = "timeupdate"
    /\ playCount = 2
    /\ endCount = [n \in Calls |-> IF n = 2 THEN 1 ELSE 0]
    /\ ~isPlaying
    /\ listeners = <<>>

\* ========================================================= App claims, again

\* The handler that ran last was a previous-action: the chevron button,
\* ArrowLeft outside the textarea or Alt+ArrowLeft inside it.
PrevRan(o) ==
    \/ o.op = "PrevButton"
    \/ o.op \in {"handleTextareaKeyDown", "handleGlobalKeyDown"} /\ o.key = "ArrowLeft"

\* The handler that ran last was a next-action: a button, ArrowRight outside
\* the textarea, Alt+ArrowRight inside it, or Enter under a correct feedback.
NextRan(o, wasCorrect) ==
    \/ o.op \in {"NextButton", "ContinueButton"}
    \/ o.op \in {"handleTextareaKeyDown", "handleGlobalKeyDown"} /\ o.key = "ArrowRight"
    \/ o.op \in {"handleTextareaKeyDown", "handleGlobalKeyDown"} /\ o.key = "Enter" /\ wasCorrect

\* C21: in every state with status PRACTICING, currentIndex is at least 0 and
\* less than the number of segments; a previous-action at index 0 changes
\* nothing of the session; the transcription that opens a session leaves
\* currentIndex at 0.
C21_IndexInRange ==
    /\ [](status = "PRACTICING" => (0 <= currentIndex /\ currentIndex < Len(segments)))
    /\ [][/\ (status = "PRACTICING" /\ currentIndex = 0 /\ PrevRan(appOp')) =>
               UNCHANGED <<currentIndex, userInput, feedback, reference, status, segments,
                           audioFile, audioUrl, isProcessing, error, job>>
          /\ (appOp'.op = "onloadResolved" /\ status' = "PRACTICING") => currentIndex' = 0]_vars

\* ArrowLeft was pressed outside the textarea at the first of two segments
\* with "a" typed: index and text are as they were.
C21_Witness ==
    /\ appOp = [op |-> "handleGlobalKeyDown", key |-> "ArrowLeft", size |-> 0]
    /\ status = "PRACTICING"
    /\ currentIndex = 0
    /\ Len(segments) = 2
    /\ userInput = <<"a">>

\* C22: in every PRACTICING state with feedback, the feedback's original is
\* the sentence of segments[currentIndex] and its verdict is the verdict on
\* the text now in the textarea, so under a correct feedback that text
\* normalises to the same string as the sentence; a step to another segment
\* empties the textarea and removes the feedback.
C22_FeedbackIsCurrent ==
    /\ []((status = "PRACTICING" /\ feedback.present) =>
            /\ currentIndex + 1 \in 1..Len(segments)
            /\ feedback.original = segments[currentIndex + 1]
            /\ feedback.isCorrect = isMatch(segments[currentIndex + 1], userInput)
            /\ feedback.isCorrect =>
                  normalizeText(userInput) = normalizeText(segments[currentIndex + 1]))
    /\ [][(status = "PRACTICING" /\ status' = "PRACTICING" /\ currentIndex' # currentIndex) =>
              (userInput' = <<>> /\ feedback' = NoFeedback)]_vars

\* The second segment "A." answered correctly with "a", after the first
\* segment " a".
C22_Witness ==
    /\ status = "PRACTICING"
    /\ segments = << <<" ", "a">>, <<"A", ".">> >>
    /\ currentIndex = 1
    /\ userInput = <<"a">>
    /\ feedback.present
    /\ feedback.isCorrect
    /\ feedback.original = <<"A", ".">>

\* C23: the status becomes COMPLETED only in a next-action taken in
\* PRACTICING at the last segment under a correct feedback; a next-action at
\* the last segment without a correct feedback leaves the status PRACTICING.
C23_CompletedOnlyAfterCorrect ==
    [][/\ (status # "COMPLETED" /\ status' = "COMPLETED") =>
             /\ status = "PRACTICING"
             /\ currentIndex = Len(segments) - 1
             /\ feedbackIsCorrect
             /\ NextRan(appOp', TRUE)
       /\ (/\ status = "PRACTICING"
           /\ currentIndex = Len(segments) - 1
           /\ ~feedbackIsCorrect
           /\ NextRan(appOp', FALSE)) => status' = "PRACTICING"]_vars

====
